---- MODULE Spec2Model ----
(***************************************************************************)
(* Model of the Filebase pin-set mirror of py-kleros-ipfs:                 *)
(*   FilebasePinAPI._append_to_pinset, _loop_get_list, get_all_cids,       *)
(*   load_pinset_from_json, save_pinset_to_json (src/filebase_pin_api.py)  *)
(* run against a remote listing service that returns pages newest-first,   *)
(* of the pin-record file shared by the buckets, and of the backup run     *)
(*   get_filebase_pins, get_missing_cids, main                             *)
(*   (src/backup_filebase_locally.py).                                     *)
(*                                                                         *)
(* Specifications: Spec (fetch cycle), SpecGlitch (one misreported count), *)
(* SpecCorrupt (record file damaged between cycles), SpecMerge (the merge  *)
(* on its own), SpecStore (loads and saves of two runs), SpecBackup (one   *)
(* backup run), SpecJob (the backup job with its retry), SpecFail (list    *)
(* calls that fail), SpecLive (the fetch cycle under fair scheduling),      *)
(* SpecUnpin (the remote also loses entries).                              *)
(*                                                                         *)
(* Time is counted in whole seconds; the sentinel epoch 2021-01-01 is 0.   *)
(* A datetime is an integer; an optional datetime (None | datetime) is a   *)
(* sequence of length 0 or 1.                                              *)
(***************************************************************************)
EXTENDS Integers, Sequences, FiniteSets, TLC

\* ------------------------------------------------------------- bounds
\* most entries ever pinned on the remote bucket
MaxEntries == 4
\* latest creation second of a remote entry
MaxTime == 6
\* the page limit handed to _loop_get_list (1000 in the source, scaled down)
limit == 2
\* how many seconds past the time range a widened boundary is followed
MaxWiden == 4
\* merge on its own: longest page, largest CID and date
MaxUnit == 2
\* backup run: number of CIDs the local node and the service can hold
MaxCid == 4
\* cycles that run on: most entries on the bucket, latest creation second
LiveEntries == 4
LiveTime == 4

\* ---------------------------------------------------- program constants
\* datetime(2021, 1, 1, tzinfo=timezone.utc)
SentinelEpoch == 0
\* timedelta(seconds=1) of the bootstrap
BootstrapOffset == 1
\* timedelta(seconds=2) of the drift path
DriftWiden == 2

None == <<>>
Some(x) == <<x>>
IsSome(o) == Len(o) = 1
Val(o) == o[1]

Min(S) == CHOOSE x \in S : \A y \in S : x <= y
Max(S) == CHOOSE x \in S : \A y \in S : x >= y

Range(s) == {s[i] : i \in 1..Len(s)}

RECURSIVE SetToSeq(_)
\* list(set(...)): the distinct elements, here in ascending order
SetToSeq(S) == IF S = {} THEN <<>> ELSE <<Min(S)>> \o SetToSeq(S \ {Min(S)})

\* mutant: the duplicates are not removed
KeepAllCids(cids) == cids

\* unique_cids = list(set(pin_set["cids"]))
UniqueCids(cids) == SetToSeq(Range(cids))

VARIABLES
    remote,            \* the bucket on the service: entries, newest first
    countMode,         \* what the service's "count" counts: "remaining" | "total"
    file,              \* the pin-record file
    pin_set,           \* get_all_cids / _loop_get_list: pin_set
    pc,                \* "idle" | "after" | "before" | "done" | "error";
                       \* merge on its own: "unit" | "merged1" | "merged2"
    at,                \* position in the loop body: "call" | "save"
    temp,              \* _loop_get_list: temp, the response being processed
    before,            \* _loop_get_list: before
    after,             \* _loop_get_list: after
    old_result_count,  \* _loop_get_list: old_result_count
    before_arg,        \* get_all_cids: before (line 343), kept for the second walk
    ev,                \* the last list call and what became of it (history)
    run,               \* facts about the current fetch cycle (history)
    ref,               \* result of an uninterrupted cold cycle on this remote (history)
    \* calls of load_pinset_from_json and save_pinset_to_json by two runs
    saves,             \* per run: the call of save_pinset_to_json it is in
    loaded,            \* the last call of load_pinset_from_json and its outcome
    last_saved,        \* per bucket: the entry its last completed save wrote (history)
    overlapped,        \* two saves have been in progress at once (history)
    clobbered,         \* buckets whose entry the last write took from a stale read (history)
    \* the backup run (backup_filebase_locally.main)
    tokens,            \* the buckets whose FILEBASE_TOKEN_* is set in the environment
    local_pins,        \* the CIDs pinned on the local node
    bpc,               \* position of main: "idle" | "fetch" | "diff" | "pin" | "finished" | "failed"
    bucket_i,          \* index in BUCKETS of the bucket loop
    local_cids,        \* the pin ls output written and read back (list of CIDs)
    missed_cids,       \* main: missed_cids
    todo,              \* main: the missed_cids the pin loop has yet to visit
    reported,          \* CIDs logged as missing in filebase
    fetched,           \* buckets get_all_cids was called for (history)
    attempts,          \* per CID: the outcomes of the pin_add calls for it (history)
    ops,               \* requests issued to the local node and the service (history)
    \* the backup job (backup_filebase_locally, __main__)
    outcomes,          \* how each execution of main ended: "returned" or the exception
    exit_status        \* of the process: "running" | "ok" | "error"

cycleVars == <<remote, countMode, pin_set, pc, at, temp, before, after,
               old_result_count, before_arg, ev, run, ref>>

storeVars == <<saves, loaded, last_saved, overlapped, clobbered>>

jobVars == <<outcomes, exit_status>>

backupVars == <<tokens, local_pins, bpc, bucket_i, local_cids, missed_cids,
                todo, reported, fetched, attempts, ops, jobVars>>

vars == <<file, cycleVars, storeVars, backupVars>>

\* --------------------------------------------------- the remote service
\* the entries a list call matches: created strictly before / after the bounds
Matching(bef, aft) ==
    SelectSeq(remote, LAMBDA e :
        /\ (IsSome(bef) => e.created < Val(bef))
        /\ (IsSome(aft) => e.created > Val(aft)))

Take(s, n) == IF Len(s) <= n THEN s ELSE SubSeq(s, 1, n)

\* the "count" of a response, as the service counts it
ServiceCount(matching, results) ==
    IF countMode = "remaining" THEN Len(matching) - Len(results) ELSE Len(matching)

\* GetPinsResponse of FilebasePinAPI.get_list(before, after, limit)
get_list(bef, aft, lim) ==
    LET m == Matching(bef, aft)
        r == Take(m, lim)
    IN  [count |-> ServiceCount(m, r), results |-> r]

\* ------------------------------------------------------ Pin Record Store
\* BUCKETS of backup_filebase_locally.py, its first two names
BUCKETS == <<"kleros", "kleros-v2">>

\* the bucket_name the fetch cycle is run for
CycleBucket == BUCKETS[1]

\* The pin-record file: absent, a text that is not JSON, or a JSON object
\* (a function from bucket names to entries).
AbsentFile == [state |-> "absent", data |-> <<>>]
UnparseableFile == [state |-> "unparseable", data |-> <<>>]
JsonFile(data) == [state |-> "json", data |-> data]

\* d[k] = v on a dict
Put(d, k, v) == [x \in (DOMAIN d) \cup {k} |-> IF x = k THEN v ELSE d[x]]

\* the bucket's entry in the file, if the file has one
Entry(f, b) == IF f.state = "json" /\ b \in DOMAIN f.data THEN Some(f.data[b]) ELSE None

\* A timestamp string is its second and its UTC offset text; a string without
\* an offset does not match "%z".
\* datetime.strftime(DATE_STR_FORMAT_API) of an aware UTC datetime
strftime(d) == [secs |-> d, tz |-> "+0000"]
\* mutant: the instant read back is off by a second
StrptimeOffBySecond(s) == s.secs + 1

\* datetime.strptime(s, DATE_STR_FORMAT_API)
strptime(s) == s.secs
\* strptime raises ValueError: time data does not match format
StrptimeRaises(s) == s.tz = ""

EmptyPinSet ==
    [count |-> 0, cids |-> <<>>, last_date |-> SentinelEpoch, first_date |-> SentinelEpoch]

\* FilebasePinAPI.load_data_from_json: open() and json.load()
load_data_from_json(f) ==
    [raised |-> CASE f.state = "absent" -> "FileNotFoundError"
                  [] f.state = "unparseable" -> "JSONDecodeError"
                  [] OTHER -> "none",
     data |-> f.data]

\* the try block of load_pinset_from_json (lines 256-263): the dict literal is
\* evaluated field by field, and the first exception ends it
TryLoadPinSet(f, b) ==
    LET d == load_data_from_json(f)
        Raise(x) == [raised |-> x, pin_set |-> EmptyPinSet]
    IN  IF d.raised # "none" THEN Raise(d.raised)
        ELSE IF b \notin DOMAIN d.data THEN Raise("KeyError")
        ELSE LET e == d.data[b]
             IN  IF "cids" \notin DOMAIN e THEN Raise("KeyError")
                 ELSE IF "count" \notin DOMAIN e THEN Raise("KeyError")
                 ELSE IF "last_date" \notin DOMAIN e THEN Raise("KeyError")
                 ELSE IF StrptimeRaises(e.last_date) THEN Raise("ValueError")
                 ELSE IF "first_date" \notin DOMAIN e THEN Raise("KeyError")
                 ELSE IF StrptimeRaises(e.first_date) THEN Raise("ValueError")
                 ELSE [raised |-> "none",
                       pin_set |-> [cids |-> e.cids, count |-> e.count,
                                    last_date |-> strptime(e.last_date),
                                    first_date |-> strptime(e.first_date)]]

\* mutant: every exception of the try block is caught
LoadCatchingAll(f, b) ==
    LET t == TryLoadPinSet(f, b)
    IN  IF t.raised # "none" THEN [raised |-> "none", pin_set |-> EmptyPinSet] ELSE t

\* FilebasePinAPI.load_pinset_from_json: the pin_set returned, or the
\* exception that escapes the except clause of line 264
load_pinset_from_json(f, b) ==
    LET t == TryLoadPinSet(f, b)
    IN  IF t.raised \in {"FileNotFoundError", "JSONDecodeError", "KeyError"}
        THEN [raised |-> "none", pin_set |-> EmptyPinSet]
        ELSE t

\* save_pinset_to_json lines 286-289: saved_data, or the exception that escapes
ReadSavedData(f) ==
    LET d == load_data_from_json(f)
    IN  IF d.raised = "FileNotFoundError" THEN [raised |-> "none", data |-> <<>>] ELSE d

\* save_pinset_to_json lines 285, 290-299: pin_set_copy
PinSetCopy(ps) ==
    [cids |-> SetToSeq(Range(ps.cids)), count |-> ps.count,
     last_date |-> strftime(ps.last_date),
     first_date |-> strftime(ps.first_date)]

\* mutant: only the saved bucket's entry is written
WriteOnlyBucket(saved_data, b, ps) == JsonFile(Put(<<>>, b, PinSetCopy(ps)))

\* mutant: the entry is put into the file as it is at the time of the write
WriteOverCurrent(saved_data, b, ps) == JsonFile(Put(file.data, b, PinSetCopy(ps)))

\* save_pinset_to_json lines 300-302: the document written
WriteSavedData(saved_data, b, ps) == JsonFile(Put(saved_data, b, PinSetCopy(ps)))

\* mutant: the write is dropped and the file stays as it was
SaveSkipped(ps, b, f) == [raised |-> "none", file |-> f]

\* FilebasePinAPI.save_pinset_to_json: the file it leaves, or the exception
\* that escapes it
save_pinset_to_json(ps, b, f) ==
    LET r == ReadSavedData(f)
    IN  IF r.raised # "none"
        THEN [raised |-> r.raised, file |-> f]
        ELSE [raised |-> "none", file |-> WriteSavedData(r.data, b, ps)]

\* ---------------------------------------------------------------- merge
PageCids(results) == [i \in 1..Len(results) |-> results[i].cid]
PageDates(results) == {results[i].created : i \in 1..Len(results)}

\* the merged bounds (lines 112-129); the page's "created" strings all have
\* the service's one format and offset, so their string order is time order
\* mutant: first_date is taken from the page whatever it was before
MergedFirstOfPage(ps, results) ==
    IF Len(results) > 0 THEN Min(PageDates(results)) ELSE ps.first_date

\* mutant: last_date is never moved by a page
MergedLastKept(ps, results) == ps.last_date

MergedLast(ps, results) ==
    IF Len(results) > 0 /\ Max(PageDates(results)) > ps.last_date
    THEN Max(PageDates(results)) ELSE ps.last_date

MergedFirst(ps, results) ==
    IF Len(results) > 0 /\ Min(PageDates(results)) < ps.first_date
    THEN Min(PageDates(results)) ELSE ps.first_date

\* mutant: count is taken before the duplicates are removed
AppendCountBeforeDedup(ps, new_items) ==
    [cids |-> UniqueCids(ps.cids \o PageCids(new_items.results)),
     count |-> Len(ps.cids \o PageCids(new_items.results)),
     last_date |-> MergedLast(ps, new_items.results),
     first_date |-> MergedFirst(ps, new_items.results)]

\* mutant: count is advanced by the size of the page
AppendCountAdded(ps, new_items) ==
    [cids |-> UniqueCids(ps.cids \o PageCids(new_items.results)),
     count |-> ps.count + Len(new_items.results),
     last_date |-> MergedLast(ps, new_items.results),
     first_date |-> MergedFirst(ps, new_items.results)]

\* mutant: the pinset keeps the CIDs of the page only
AppendPageOnly(ps, new_items) ==
    [cids |-> UniqueCids(PageCids(new_items.results)),
     count |-> Len(UniqueCids(PageCids(new_items.results))),
     last_date |-> MergedLast(ps, new_items.results),
     first_date |-> MergedFirst(ps, new_items.results)]

\* FilebasePinAPI._append_to_pinset
_append_to_pinset(ps, new_items) ==
    LET results == new_items.results
        cids == UniqueCids(ps.cids \o PageCids(results))
    IN  [cids |-> cids, count |-> Len(cids),
         last_date |-> MergedLast(ps, results),
         first_date |-> MergedFirst(ps, results)]

\* ------------------------------------------------------------- history
NoResponse == [count |-> 0, results |-> <<>>]

NoEvent(kind) ==
    [kind |-> kind, walk |-> "none", before |-> None, after |-> None,
     lim |-> 0, results |-> <<>>, count |-> 0, old |-> 0,
     first |-> FALSE, drifted |-> FALSE]

\* a list call: its arguments, its response, the count it was compared with
\* (old), whether it is the first call of its walk (first) and whether a call
\* of its walk, this one included, took the drift path (drifted)
CallEvent(kind, walk, bef, aft, lim, resp, old) ==
    [kind |-> kind, walk |-> walk, before |-> bef, after |-> aft,
     lim |-> lim, results |-> resp.results, count |-> resp.count, old |-> old,
     first |-> ev.walk # walk,
     drifted |-> kind = "drift" \/ (ev.walk = walk /\ ev.drifted)]

NoRun ==
    [cold |-> FALSE, start_last |-> SentinelEpoch, chain |-> FALSE,
     interrupts |-> 0, glitched |-> FALSE, ties |-> {}]

\* the runs of the record store
Runs == 1..2

NoSave ==
    [at |-> "idle", bucket_name |-> "", pin_set |-> EmptyPinSet,
     passed |-> EmptyPinSet, saved_data |-> <<>>]

NoEntries == [b \in Range(BUCKETS) |-> None]

\* no call of the record store is being followed
StoreIdle ==
    /\ saves = [r \in Runs |-> NoSave]
    /\ loaded = None
    /\ last_saved = NoEntries
    /\ overlapped = FALSE
    /\ clobbered = {}

\* no backup run is being followed
BackupIdle ==
    /\ tokens = Range(BUCKETS)
    /\ local_pins = {}
    /\ bpc = "idle"
    /\ bucket_i = 1
    /\ local_cids = <<>>
    /\ missed_cids = {}
    /\ todo = {}
    /\ reported = {}
    /\ fetched = {}
    /\ attempts = <<>>
    /\ ops = {}
    /\ outcomes = <<>>
    /\ exit_status = "running"

\* ----------------------------------------------------------------- Init
Init ==
    /\ StoreIdle
    /\ BackupIdle
    /\ remote = <<>>
    /\ countMode \in {"remaining", "total"}
    /\ file = AbsentFile
    /\ pin_set = EmptyPinSet
    /\ pc = "idle"
    /\ at = "call"
    /\ temp = NoResponse
    /\ before = None
    /\ after = None
    /\ old_result_count = 0
    /\ before_arg = SentinelEpoch
    /\ ev = NoEvent("init")
    /\ run = NoRun
    /\ ref = None

Newest == IF Len(remote) = 0 THEN 1 ELSE remote[1].created

Resting == pc \in {"idle", "done", "error"}

\* the process is not running: nothing of it is in memory
AtRest ==
    /\ pc' = "idle"
    /\ at' = "call"
    /\ temp' = NoResponse
    /\ pin_set' = EmptyPinSet
    /\ before' = None
    /\ after' = None
    /\ old_result_count' = 0
    /\ before_arg' = SentinelEpoch

\* the CID of the next entry pinned: one above the highest on the bucket
NextCid == Max({0} \cup {remote[i].cid : i \in 1..Len(remote)}) + 1

\* the service pins a new entry while no fetch cycle is running; the bucket
\* holds up to entries entries, created up to second latest
RemotePinUpTo(entries, latest) ==
    /\ UNCHANGED <<storeVars, backupVars>>
    /\ Resting
    /\ NextCid <= entries
    /\ \E t \in Newest..latest :
          remote' = <<[cid |-> NextCid, created |-> t]>> \o remote
    /\ AtRest
    /\ ev' = NoEvent("pin")
    /\ run' = NoRun
    /\ ref' = None
    /\ UNCHANGED <<countMode, file>>

RemotePin == RemotePinUpTo(MaxEntries, MaxTime)

\* the pin-record file is removed while no fetch cycle is running
DeleteFile ==
    /\ UNCHANGED <<storeVars, backupVars>>
    /\ Resting
    /\ file.state # "absent"
    /\ file' = AbsentFile
    /\ AtRest
    /\ ev' = NoEvent("delete_file")
    /\ run' = NoRun
    /\ UNCHANGED <<remote, countMode, ref>>

\* mutant: an empty answer is an error whatever the pinset loaded
EmptyAnswerRaises(ps, boot) == Len(boot.results) = 0

\* lines 325-333: with count 0 the bootstrap call is made and
\* temp["results"][0] raises IndexError on an answer without entries
BootstrapRaises(ps, boot) == ps.count = 0 /\ Len(boot.results) = 0

\* mutant: the bootstrap sets last_date to the entry's own timestamp
BootstrapNoOffset(ps, boot) ==
    [ps EXCEPT !.first_date = boot.results[1].created,
               !.last_date = boot.results[1].created]

\* lines 333-338: the bootstrap takes the dates of the entry it was given
Bootstrap(ps, boot) ==
    [ps EXCEPT !.first_date = boot.results[1].created,
               !.last_date = boot.results[1].created - BootstrapOffset]

\* line 156: before = None if key == "after" else starting_date
InitialBefore(key, starting_date) ==
    IF key = "after" THEN None ELSE Some(starting_date)

\* mutant: after is set in either direction
AfterAlwaysSet(key, starting_date) == Some(starting_date)

\* line 157: after = None if key == "before" else starting_date
InitialAfter(key, starting_date) ==
    IF key = "before" THEN None ELSE Some(starting_date)

\* get_all_cids up to the first call of _loop_get_list (lines 320-347, 156-159)
Start ==
    /\ UNCHANGED <<storeVars, backupVars>>
    /\ Resting
    /\ LET ld == load_pinset_from_json(file, CycleBucket)
           ps0 == ld.pin_set
           boot == get_list(None, Some(ps0.last_date), 1)
       IN  IF ld.raised # "none"
           THEN \* the exception of the load ends the cycle
                /\ pc' = "error"
                /\ pin_set' = EmptyPinSet
                /\ ev' = NoEvent("load_error")
                /\ run' = NoRun
                /\ UNCHANGED <<before, after, old_result_count, before_arg>>
           ELSE IF BootstrapRaises(ps0, boot)
           THEN \* temp["results"][0] raises IndexError
                /\ pc' = "error"
                /\ pin_set' = ps0
                /\ ev' = CallEvent("boot_error", "boot", None, Some(ps0.last_date), 1, boot, 0)
                /\ run' = [NoRun EXCEPT !.cold = TRUE]
                /\ UNCHANGED <<before, after, old_result_count, before_arg>>
           ELSE LET ps1 == IF ps0.count = 0 THEN Bootstrap(ps0, boot) ELSE ps0
                IN  /\ pc' = "after"
                    /\ pin_set' = ps1
                    /\ before' = InitialBefore("after", ps1.last_date)
                    /\ after' = InitialAfter("after", ps1.last_date)
                    /\ before_arg' = ps1.first_date
                    /\ old_result_count' = 0
                    /\ ev' = IF ps0.count = 0
                             THEN CallEvent("boot", "boot", None, Some(ps0.last_date), 1, boot, 0)
                             ELSE NoEvent("start")
                    /\ run' = [cold |-> ps0.count = 0,
                               start_last |-> ps0.last_date,
                               chain |-> ps0.count = 0 \/ (run.chain /\ pc = "idle"),
                               interrupts |-> IF ps0.count = 0 THEN 0 ELSE run.interrupts,
                               glitched |-> FALSE,
                               ties |-> {}]
    /\ at' = "call"
    /\ temp' = NoResponse
    /\ UNCHANGED <<remote, countMode, file, ref>>

InRange(o) == IsSome(o) => Val(o) \in (SentinelEpoch - MaxWiden)..(MaxTime + MaxWiden)

\* the walk's loop is left: the forward walk hands over to the backward walk
\* (get_all_cids lines 349-351), the backward walk returns (line 353)
EndWalk ==
    /\ at' = "call"
    /\ temp' = NoResponse
    /\ old_result_count' = 0
    /\ IF pc = "after"
       THEN /\ pc' = "before"
            /\ before' = InitialBefore("before", before_arg)
            /\ after' = InitialAfter("before", before_arg)
            /\ ref' = ref
       ELSE /\ pc' = "done"
            /\ before' = None
            /\ after' = None
            /\ ref' = IF run.cold /\ run.chain /\ run.interrupts = 0 /\ ~run.glitched
                      THEN Some(pin_set') ELSE ref

\* remote entries at the edge timestamp of an accepted page that the call
\* matched and the page left out
EdgeTies(resp) ==
    IF Len(resp.results) = 0 THEN {}
    ELSE LET edge == resp.results[Len(resp.results)].created
             m == Matching(before, after)
         IN  {m[i].cid : i \in {j \in 1..Len(m) : m[j].created = edge}}
                \ Range(PageCids(resp.results))

\* mutant: the first response is compared with more than it can account for
BaselineAboveFirstPage(old, resp) ==
    IF old = 0 THEN resp.count + limit + 1 ELSE old

\* lines 173-175: the count a response is compared with; on the first
\* iteration it is made up from the response itself
BaselineCount(old, resp) ==
    IF old = 0 THEN resp.count + Len(resp.results) ELSE old

\* mutant: a count that fell by less than a page is taken as drift
DriftWhenNotDecreased(old, result_count) == old - result_count < limit

\* line 176: if old_result_count - limit > result_count
IsDrift(old, result_count) == old - limit > result_count

\* mutant: the retry is made with the same before
BeforeNotWidened(bef) == bef

\* lines 181-182: if before: before = before + timedelta(seconds=2)
WidenedBefore(bef) == IF IsSome(bef) THEN Some(Val(bef) + DriftWiden) ELSE bef

\* lines 183-184: if after: after = after - timedelta(seconds=2)
WidenedAfter(aft) == IF IsSome(aft) THEN Some(Val(aft) - DriftWiden) ELSE aft

\* lines 160-199 of _loop_get_list on the response resp: the drift check,
\* the merge, the break on an empty page
LoopCallOn(resp, glitch) ==
    LET result_count == resp.count
        old1 == BaselineCount(old_result_count, resp)
        drift == IsDrift(old1, result_count)
        empty == Len(resp.results) = 0
    IN  /\ run' = [run EXCEPT !.glitched = @ \/ glitch,
                              !.ties = IF drift THEN @ ELSE @ \cup EdgeTies(resp)]
        /\ UNCHANGED <<file, before_arg>>
        /\ IF drift
           THEN /\ before' = WidenedBefore(before)
                /\ after' = WidenedAfter(after)
                /\ InRange(before') /\ InRange(after')
                /\ old_result_count' = old1
                /\ ev' = CallEvent("drift", pc, before, after, limit, resp, old1)
                /\ UNCHANGED <<pin_set, pc, at, temp, ref>>
           ELSE /\ pin_set' = _append_to_pinset(pin_set, resp)
                /\ IF empty
                   THEN /\ ev' = CallEvent("stop_empty", pc, before, after, limit, resp, old1)
                        /\ EndWalk
                   ELSE /\ ev' = CallEvent("merged", pc, before, after, limit, resp, old1)
                        /\ old_result_count' = result_count
                        /\ at' = "save"
                        /\ temp' = resp
                        /\ UNCHANGED <<pc, before, after, ref>>

\* an iteration of the walk up to the merge, against the service as it is
LoopCall ==
    /\ UNCHANGED <<storeVars, backupVars>>
    /\ pc \in {"after", "before"}
    /\ at = "call"
    /\ LoopCallOn(get_list(before, after, limit), FALSE)
    /\ UNCHANGED <<remote, countMode>>

\* mutant: a count equal to limit sends the walk on
StopWhenBelowLimit(resp) == resp.count < limit

\* line 200: if result_count <= limit
StopTest(resp) == resp.count <= limit

\* line 208: after = pin_set["last_date"]
NextAfter(ps) == Some(ps.last_date)

\* mutant: the backward walk goes on from the newest date
StaleBefore(ps) == Some(ps.last_date)

\* line 210: before = pin_set["first_date"]
NextBefore(ps) == Some(ps.first_date)

\* lines 200-212 of _loop_get_list: the stop test, the new boundary, the save
LoopSave ==
    /\ UNCHANGED <<storeVars, backupVars>>
    /\ pc \in {"after", "before"}
    /\ at = "save"
    /\ LET saved == save_pinset_to_json(pin_set, CycleBucket, file)
           stop == StopTest(temp)
           \* lines 207-210
           aft1 == IF pc = "after" THEN NextAfter(pin_set) ELSE after
           bef1 == IF pc = "before" THEN NextBefore(pin_set) ELSE before
       IN  /\ file' = saved.file
           /\ UNCHANGED <<remote, countMode, pin_set, before_arg, run>>
           /\ IF saved.raised # "none"
              THEN \* the exception of the save (line 211) ends the cycle
                   /\ pc' = "error"
                   /\ ev' = [ev EXCEPT !.kind = "save_error"]
                   /\ after' = aft1
                   /\ before' = bef1
                   /\ UNCHANGED <<at, temp, old_result_count, ref>>
              ELSE IF stop
              THEN /\ ev' = [ev EXCEPT !.kind = "stop_count"]
                   /\ EndWalk
              ELSE /\ ev' = [ev EXCEPT !.kind = "saved"]
                   /\ at' = "call"
                   /\ temp' = NoResponse
                   /\ after' = aft1
                   /\ before' = bef1
                   /\ UNCHANGED <<pc, old_result_count, ref>>

\* the process is killed during a walk; what it held in memory is gone
Interrupt ==
    /\ UNCHANGED <<storeVars, backupVars>>
    /\ pc \in {"after", "before"}
    /\ AtRest
    /\ ev' = NoEvent("interrupt")
    /\ run' = [NoRun EXCEPT !.chain = run.chain,
                            !.interrupts = IF run.interrupts < 2 THEN run.interrupts + 1 ELSE 2]
    /\ UNCHANGED <<remote, countMode, file, ref>>

Next == RemotePin \/ DeleteFile \/ Start \/ LoopCall \/ LoopSave \/ Interrupt

Spec == Init /\ [][Next]_vars

\* an iteration whose response carries a wrong count, once per fetch cycle
LoopCallGlitch ==
    /\ UNCHANGED <<storeVars, backupVars>>
    /\ pc \in {"after", "before"}
    /\ at = "call"
    /\ ~run.glitched
    /\ LET resp == get_list(before, after, limit)
       IN  \E c \in 0..(MaxEntries + limit) :
              /\ c # resp.count
              /\ LoopCallOn([resp EXCEPT !.count = c], TRUE)
    /\ UNCHANGED <<remote, countMode>>

NextGlitch == Next \/ LoopCallGlitch

\* the fetch cycle against a service that misreports its count once
SpecGlitch == Init /\ [][NextGlitch]_vars

\* ------------------------------------------------- a failing list call
\* how a list call can fail: no answer within the timeout, a non-2xx answer
\* with a JSON error body, a non-2xx answer whose body is not JSON
Failures == {"timeout", "error_body", "not_json"}

\* get_list lines 391-393 and the first use of its result: requests.get
\* raises on a timeout; the status of the answer is not looked at, res.json()
\* raises on a body that is not JSON, and an error body has neither "count"
\* (line 172) nor "results" (line 333)
FailedCallRaises(failure) ==
    CASE failure = "timeout" -> "ReadTimeout"
      [] failure = "not_json" -> "JSONDecodeError"
      [] OTHER -> "KeyError"

Raised == {FailedCallRaises(f) : f \in Failures}

\* mutant: the walk catches the exception and tries again
RetryFailedCall(walk) == walk

\* nothing in _loop_get_list or get_all_cids catches the exception of a
\* list call: the fetch cycle ends with it
AfterFailedCall(walk) == "error"

\* an iteration of a walk whose list call fails (lines 166-171)
LoopCallFail ==
    /\ UNCHANGED <<storeVars, backupVars>>
    /\ pc \in {"after", "before"}
    /\ at = "call"
    /\ \E failure \in Failures :
          ev' = CallEvent(FailedCallRaises(failure), pc, before, after, limit,
                          NoResponse, old_result_count)
    /\ pc' = AfterFailedCall(pc)
    /\ UNCHANGED <<remote, countMode, file, pin_set, at, temp, before, after,
                   old_result_count, before_arg, run, ref>>

\* a cycle without checkpoint whose bootstrap call fails (lines 325-333)
StartFail ==
    /\ UNCHANGED <<storeVars, backupVars>>
    /\ Resting
    /\ LET ld == load_pinset_from_json(file, CycleBucket)
       IN  /\ ld.raised = "none"
           /\ ld.pin_set.count = 0
           /\ pin_set' = ld.pin_set
           /\ \E failure \in Failures :
                 ev' = CallEvent(FailedCallRaises(failure), "boot", None,
                                 Some(ld.pin_set.last_date), 1, NoResponse, 0)
    /\ pc' = AfterFailedCall("error")
    /\ run' = [NoRun EXCEPT !.cold = TRUE]
    /\ at' = "call"
    /\ temp' = NoResponse
    /\ UNCHANGED <<remote, countMode, file, before, after, old_result_count,
                   before_arg, ref>>

NextFail == Next \/ LoopCallFail \/ StartFail

\* the fetch cycle against a service whose list calls can fail
SpecFail == Init /\ [][NextFail]_vars

\* ------------------------------------------------------ a cycle that runs
RemotePinLive == RemotePinUpTo(LiveEntries, LiveTime)

NextLive == RemotePinLive \/ Start \/ LoopCall \/ LoopSave

\* cycle after cycle, never killed: the process, once in a walk, goes on to
\* its next step
SpecLive == Init /\ [][NextLive]_vars /\ WF_vars(LoopCall) /\ WF_vars(LoopSave)

\* ------------------------------------------- entries leave the remote
\* an entry is deleted on the service while no fetch cycle is running
RemoteUnpin ==
    /\ UNCHANGED <<storeVars, backupVars>>
    /\ Resting
    /\ \E i \in 1..Len(remote) :
          remote' = [j \in 1..(Len(remote) - 1) |->
                        IF j < i THEN remote[j] ELSE remote[j + 1]]
    /\ AtRest
    /\ ev' = NoEvent("unpin")
    /\ run' = NoRun
    /\ ref' = None
    /\ UNCHANGED <<countMode, file>>

NextUnpin ==
    RemotePinLive \/ RemoteUnpin \/ Start \/ LoopCall \/ LoopSave \/ Interrupt

\* fetch cycles against a bucket that gains and loses entries between them
SpecUnpin == Init /\ [][NextUnpin]_vars

\* ------------------------------------------------- the merge on its own
SeqsUpTo(S, n) == UNION {[1..k -> S] : k \in 0..n}

UnitEntries == [cid : 1..MaxUnit, created : 1..MaxUnit]

\* any pinset a record file can hold (a list of up to two CIDs, so that a
\* CID can be held twice) and any page a response can carry
InitMerge ==
    /\ StoreIdle
    /\ BackupIdle
    /\ pc = "unit"
    /\ \E cids \in SeqsUpTo(1..MaxUnit, 2), last \in 0..MaxUnit :
         \E count \in {0, Len(cids), Len(cids) + 1}, first \in 0..(last + 1) :
            pin_set = [count |-> count, cids |-> cids,
                       last_date |-> last, first_date |-> first]
    /\ \E results \in SeqsUpTo(UnitEntries, MaxUnit) :
         temp = [count |-> 0, results |-> results]
    /\ remote = <<>>
    /\ countMode = "total"
    /\ file = AbsentFile
    /\ at = "call"
    /\ before = None
    /\ after = None
    /\ old_result_count = 0
    /\ before_arg = SentinelEpoch
    /\ ev = NoEvent("init")
    /\ run = NoRun
    /\ ref = None

\* pin_set = self._append_to_pinset(pin_set=pin_set, new_items=temp), and
\* again with the same temp; ref keeps the pinset as it was before the call
MergePage ==
    /\ UNCHANGED <<storeVars, backupVars>>
    /\ pc \in {"unit", "merged1"}
    /\ pin_set' = _append_to_pinset(pin_set, temp)
    /\ ref' = Some(pin_set)
    /\ pc' = IF pc = "unit" THEN "merged1" ELSE "merged2"
    /\ ev' = NoEvent("merge")
    /\ UNCHANGED <<remote, countMode, file, at, temp, before, after,
                   old_result_count, before_arg, run>>

\* FilebasePinAPI.save_pinset_to_json(pin_set, ...)
SavePinSet ==
    /\ UNCHANGED <<storeVars, backupVars>>
    /\ pc \in {"unit", "merged1", "merged2"}
    /\ file' = save_pinset_to_json(pin_set, CycleBucket, file).file
    /\ ev' = NoEvent("save")
    /\ UNCHANGED <<remote, countMode, pin_set, pc, at, temp, before, after,
                   old_result_count, before_arg, run, ref>>

NextMerge == MergePage \/ SavePinSet

SpecMerge == InitMerge /\ [][NextMerge]_vars

\* ------------------------------------------------ a damaged record file
\* the pin-record file is left as a text that is not JSON (a write cut short)
CorruptFile ==
    /\ UNCHANGED <<storeVars, backupVars>>
    /\ Resting
    /\ file.state # "unparseable"
    /\ file' = UnparseableFile
    /\ AtRest
    /\ ev' = NoEvent("corrupt_file")
    /\ run' = NoRun
    /\ UNCHANGED <<remote, countMode, ref>>

NextCorrupt == Next \/ CorruptFile

\* the fetch cycle with a record file that can be damaged between cycles
SpecCorrupt == Init /\ [][NextCorrupt]_vars

\* ------------------------------------------ the record store on its own
\* the pinsets handed to save_pinset_to_json
StorePinSets ==
    {[count |-> Len(c), cids |-> c, last_date |-> MaxUnit, first_date |-> 1] :
        c \in SeqsUpTo(1..MaxUnit, 1) \cup {<<1, 1>>}}
    \cup {[count |-> 1, cids |-> <<1, 1>>, last_date |-> MaxUnit, first_date |-> 1]}

\* entries a record file can hold for a bucket: a well-formed one, one
\* without "first_date", and ones whose timestamps lack the UTC offset
GoodEntry == PinSetCopy([count |-> 1, cids |-> <<1>>, last_date |-> 1, first_date |-> 1])
NoFirstDate == [cids |-> <<1>>, count |-> 1, last_date |-> strftime(1)]
BadLastDate == [GoodEntry EXCEPT !.last_date = [secs |-> 1, tz |-> ""]]
BadFirstDate == [GoodEntry EXCEPT !.first_date = [secs |-> 1, tz |-> ""]]

InitStore ==
    /\ \/ file = AbsentFile
       \/ file = UnparseableFile
       \/ file = JsonFile(<<>>)
       \/ file = JsonFile(Put(<<>>, CycleBucket, GoodEntry))
       \/ file = JsonFile(Put(<<>>, CycleBucket, NoFirstDate))
       \/ file = JsonFile(Put(<<>>, CycleBucket, BadLastDate))
       \/ file = JsonFile(Put(<<>>, CycleBucket, BadFirstDate))
    /\ saves = [r \in Runs |-> NoSave]
    /\ loaded = None
    /\ last_saved = [b \in Range(BUCKETS) |-> Entry(file, b)]
    /\ overlapped = FALSE
    /\ clobbered = {}
    /\ BackupIdle
    /\ remote = <<>>
    /\ countMode = "total"
    /\ pin_set = EmptyPinSet
    /\ pc = "store"
    /\ at = "call"
    /\ temp = NoResponse
    /\ before = None
    /\ after = None
    /\ old_result_count = 0
    /\ before_arg = SentinelEpoch
    /\ ev = NoEvent("init")
    /\ run = NoRun
    /\ ref = None

\* copy.deepcopy(pin_set)
deepcopy(ps) == ps

\* FilebasePinAPI.load_pinset_from_json(filepath, bucket_name), while no save
\* is under way
LoadPinSet(b) ==
    /\ \A r \in Runs : saves[r].at # "read"
    /\ LET ld == load_pinset_from_json(file, b)
       IN  loaded' = Some([bucket_name |-> b, raised |-> ld.raised, pin_set |-> ld.pin_set])
    /\ UNCHANGED <<file, saves, last_saved, overlapped, clobbered, cycleVars, backupVars>>

\* save_pinset_to_json of run r, lines 285-289: the copy of the pinset and
\* the read of the file; run r saves for the bucket BUCKETS[r]
SaveRead(r) ==
    /\ saves[r].at # "read"
    /\ \E ps \in StorePinSets :
          LET rd == ReadSavedData(file)
          IN  saves' = [saves EXCEPT ![r] =
                  [at |-> IF rd.raised # "none" THEN "raised" ELSE "read",
                   bucket_name |-> BUCKETS[r],
                   pin_set |-> ps,
                   passed |-> deepcopy(ps),
                   saved_data |-> rd.data]]
    /\ overlapped' = (overlapped \/ \E q \in Runs \ {r} : saves[q].at = "read")
    /\ loaded' = None
    /\ UNCHANGED <<file, last_saved, clobbered, cycleVars, backupVars>>

\* save_pinset_to_json of run r, lines 290-302: the entry is put into the
\* data read and the whole file is rewritten
SaveWrite(r) ==
    /\ saves[r].at = "read"
    /\ LET sv == saves[r]
           b == sv.bucket_name
       IN  /\ file' = WriteSavedData(sv.saved_data, b, sv.passed)
           /\ last_saved' = [last_saved EXCEPT ![b] = Some(PinSetCopy(sv.passed))]
           /\ clobbered' = {x \in Range(BUCKETS) \ {b} :
                               Entry(file, x) # Entry(JsonFile(sv.saved_data), x)}
    /\ saves' = [saves EXCEPT ![r].at = "returned", ![r].saved_data = <<>>]
    /\ UNCHANGED <<loaded, overlapped, cycleVars, backupVars>>

NextStore ==
    \/ \E b \in Range(BUCKETS) : LoadPinSet(b)
    \/ \E r \in Runs : SaveRead(r)
    \/ \E r \in Runs : SaveWrite(r)

\* loads and saves of two runs on one pin-record file
SpecStore == InitStore /\ [][NextStore]_vars

\* ------------------------------------------------------ the backup run
BackupCids == 1..MaxCid

\* the CIDs the service can list for a bucket; the second bucket holds the
\* last two, which the first can hold as well
Listed(b) == IF b = BUCKETS[1] THEN SUBSET BackupCids ELSE SUBSET {MaxCid - 1, MaxCid}

\* the entry an earlier run left for a bucket that held the CID c
MirroredEntry(c) ==
    PinSetCopy([count |-> 1, cids |-> <<c>>, last_date |-> 1, first_date |-> 1])

\* FilebasePinAPI.get_token: the exception it raises
get_token(b) == IF b \in tokens THEN "none" ELSE "ValueError"

\* KuboRPC.read_pin_ls_output of the file KuboRPC.pin_ls wrote
read_pin_ls_output(pins) == SetToSeq(pins)

\* get_filebase_pins: the CIDs of every entry of the file, each once
get_filebase_pins(f) ==
    IF f.state # "json"
    THEN [raised |-> IF f.state = "absent" THEN "FileNotFoundError" ELSE "JSONDecodeError",
          cids |-> <<>>]
    ELSE [raised |-> "none",
          cids |-> SetToSeq(UNION {Range(f.data[b].cids) : b \in DOMAIN f.data})]

\* mutant: every mirrored CID is returned as missing
MissingWithoutDiff(local, filebase) ==
    [missing_cids |-> Range(filebase),
     filebase_missing_cids |-> Range(local) \ Range(filebase)]

\* get_missing_cids lines 105-113: the set returned and the CIDs logged
get_missing_cids(local, filebase) ==
    [missing_cids |-> Range(filebase) \ Range(local),
     filebase_missing_cids |-> Range(local) \ Range(filebase)]

\* mutant: a pin_add that fails ends the run
StopOnPinError(outcome) == IF outcome = "ok" THEN "pin" ELSE "failed"

\* main lines 138-146: where the loop goes after a pin_add
AfterPinAdd(outcome) == "pin"

\* mutant: the pinned CID replaces the node's pins
PinAddReplacing(pins, cid, outcome) == IF outcome = "ok" THEN {cid} ELSE pins

\* KuboRPC.pin_add: the node's pins after the call
PinAddResult(pins, cid, outcome) == IF outcome = "ok" THEN pins \cup {cid} ELSE pins

NoAttempts == [c \in BackupCids |-> <<>>]

\* a backup run is about to start: any local pins, any tokens configured,
\* and a mirror file that is absent or was written by an earlier run
InitBackup ==
    /\ tokens \in SUBSET Range(BUCKETS)
    /\ local_pins \in SUBSET BackupCids
    /\ \/ file = AbsentFile
       \/ file = JsonFile(Put(Put(<<>>, BUCKETS[1], MirroredEntry(1)),
                               BUCKETS[2], MirroredEntry(MaxCid)))
    /\ bpc = "idle"
    /\ bucket_i = 1
    /\ local_cids = <<>>
    /\ missed_cids = {}
    /\ todo = {}
    /\ reported = {}
    /\ fetched = {}
    /\ attempts = NoAttempts
    /\ ops = {}
    /\ outcomes = <<>>
    /\ exit_status = "running"
    /\ StoreIdle
    /\ remote = <<>>
    /\ countMode = "total"
    /\ pin_set = EmptyPinSet
    /\ pc = "backup"
    /\ at = "call"
    /\ temp = NoResponse
    /\ before = None
    /\ after = None
    /\ old_result_count = 0
    /\ before_arg = SentinelEpoch
    /\ ev = NoEvent("init")
    /\ run = NoRun
    /\ ref = None

\* main lines 116-120: RPC.pin_ls writes the node's pins to the local file
BackupStart ==
    /\ bpc = "idle"
    /\ local_cids' = read_pin_ls_output(local_pins)
    /\ ops' = ops \cup {"pin/ls"}
    /\ bpc' = "fetch"
    /\ UNCHANGED <<file, cycleVars, storeVars, tokens, local_pins, bucket_i,
                   missed_cids, todo, reported, fetched, attempts, jobVars>>

\* the page that stands for all the pages of one fetch cycle
ListedPage(X) ==
    [count |-> 0,
     results |-> [i \in 1..Cardinality(X) |-> [cid |-> SetToSeq(X)[i], created |-> 1]]]

\* main lines 124-128: one turn of the bucket loop, get_all_cids for
\* BUCKETS[bucket_i]. The cycle is taken as a whole: the service lists the
\* CIDs X, they are merged and the pinset is saved; an exception of the
\* cycle leaves main.
FetchBucket ==
    /\ bpc = "fetch"
    /\ bucket_i <= Len(BUCKETS)
    /\ LET b == BUCKETS[bucket_i]
           ld == load_pinset_from_json(file, b)
       IN  /\ fetched' = fetched \cup {b}
           /\ \E X \in Listed(b) :
                 LET merged == _append_to_pinset(ld.pin_set, ListedPage(X))
                     saved == save_pinset_to_json(merged, b, file)
                     raised ==
                         IF ld.raised # "none" THEN ld.raised
                         ELSE IF get_token(b) # "none" THEN get_token(b)
                         ELSE IF ld.pin_set.count = 0 /\ X = {} THEN "IndexError"
                         ELSE IF X # {} THEN saved.raised
                         ELSE "none"
                 IN  /\ ops' = IF ld.raised = "none" /\ get_token(b) = "none"
                               THEN ops \cup {"GET pins"} ELSE ops
                     /\ file' = IF raised = "none" /\ X # {} THEN saved.file ELSE file
                     /\ bpc' = IF raised = "none" THEN "fetch" ELSE "failed"
                     /\ bucket_i' = IF raised = "none" THEN bucket_i + 1 ELSE bucket_i
                     /\ outcomes' = IF raised = "none" THEN outcomes
                                    ELSE Append(outcomes, raised)
    /\ UNCHANGED <<cycleVars, storeVars, tokens, local_pins, local_cids,
                   missed_cids, todo, reported, attempts, exit_status>>

\* main lines 130-135: get_missing_cids
CheckMissing ==
    /\ bpc = "fetch"
    /\ bucket_i > Len(BUCKETS)
    /\ LET filebase == get_filebase_pins(file)
           diff == get_missing_cids(local_cids, filebase.cids)
       IN  IF filebase.raised # "none"
           THEN /\ bpc' = "failed"
                /\ outcomes' = Append(outcomes, filebase.raised)
                /\ UNCHANGED <<missed_cids, todo, reported>>
           ELSE /\ bpc' = "pin"
                /\ missed_cids' = diff.missing_cids
                /\ todo' = diff.missing_cids
                /\ reported' = diff.filebase_missing_cids
                /\ UNCHANGED outcomes
    /\ UNCHANGED <<file, cycleVars, storeVars, tokens, local_pins, bucket_i,
                   local_cids, fetched, attempts, ops, exit_status>>

\* main lines 136-146: one turn of the pin loop; the call succeeds, times
\* out or fails otherwise
PinAdd ==
    /\ bpc = "pin"
    /\ \E cid \in todo, outcome \in {"ok", "ReadTimeout", "Exception"} :
          /\ todo' = todo \ {cid}
          /\ attempts' = [attempts EXCEPT ![cid] = Append(@, outcome)]
          /\ local_pins' = PinAddResult(local_pins, cid, outcome)
          /\ bpc' = AfterPinAdd(outcome)
    /\ ops' = ops \cup {"pin/add"}
    /\ UNCHANGED <<file, cycleVars, storeVars, tokens, bucket_i, local_cids,
                   missed_cids, reported, fetched, jobVars>>

\* main lines 147-148: the pin loop is over
BackupEnd ==
    /\ bpc = "pin"
    /\ todo = {}
    /\ bpc' = "finished"
    /\ outcomes' = Append(outcomes, "returned")
    /\ UNCHANGED <<file, cycleVars, storeVars, tokens, local_pins, bucket_i,
                   local_cids, missed_cids, todo, reported, fetched, attempts, ops,
                   exit_status>>

NextBackup == BackupStart \/ FetchBucket \/ CheckMissing \/ PinAdd \/ BackupEnd

\* one run of backup_filebase_locally.main
SpecBackup == InitBackup /\ [][NextBackup]_vars

\* ------------------------------------------------------ the backup job
\* a request of main is not answered: pin/ls (lines 119-120) or a list call
\* of a fetch cycle (lines 124-128) raises ReadTimeout or another
\* requests exception, which leaves main; the pages the cycle merged
\* before it are saved
MainRequestFails ==
    /\ \E exception \in {"ReadTimeout", "ConnectionError"} :
          outcomes' = Append(outcomes, exception)
    /\ \/ /\ bpc = "idle"
          /\ ops' = ops \cup {"pin/ls"}
          /\ UNCHANGED <<file, fetched>>
       \/ /\ bpc = "fetch"
          /\ bucket_i <= Len(BUCKETS)
          /\ LET b == BUCKETS[bucket_i]
                 ld == load_pinset_from_json(file, b)
             IN  /\ ld.raised = "none"
                 /\ get_token(b) = "none"
                 /\ fetched' = fetched \cup {b}
                 /\ \E X \in Listed(b) :
                       LET merged == _append_to_pinset(ld.pin_set, ListedPage(X))
                           saved == save_pinset_to_json(merged, b, file)
                       IN  /\ X # {} => saved.raised = "none"
                           /\ file' = IF X # {} THEN saved.file ELSE file
          /\ ops' = ops \cup {"GET pins"}
    /\ bpc' = "failed"
    /\ UNCHANGED <<cycleVars, storeVars, tokens, local_pins, bucket_i, local_cids,
                   missed_cids, todo, reported, attempts, exit_status>>

\* mutant: every read timeout is answered by another execution
RetryAfterAnyTimeout(ended) == ended[Len(ended)] = "ReadTimeout"

\* __main__ lines 157-160: the except clause around the first call of main
\* takes a ReadTimeout; the call it makes is under no such clause
RetryTest(ended) == Len(ended) = 1 /\ ended[1] = "ReadTimeout"

\* __main__ lines 158-160: main is called again
MainRetry ==
    /\ exit_status = "running"
    /\ bpc = "failed"
    /\ RetryTest(outcomes)
    /\ bpc' = "idle"
    /\ bucket_i' = 1
    /\ local_cids' = <<>>
    /\ missed_cids' = {}
    /\ todo' = {}
    /\ reported' = {}
    /\ fetched' = {}
    /\ attempts' = NoAttempts
    /\ UNCHANGED <<file, cycleVars, storeVars, tokens, local_pins, ops, jobVars>>

\* __main__ lines 161-168: the heartbeat after a run that returned, whose
\* failure is only logged; the exception of a run is logged and raised
ProcessExit ==
    /\ exit_status = "running"
    /\ \/ bpc = "finished" /\ exit_status' = "ok"
       \/ bpc = "failed" /\ ~RetryTest(outcomes) /\ exit_status' = "error"
    /\ UNCHANGED <<file, cycleVars, storeVars, tokens, local_pins, bpc, bucket_i,
                   local_cids, missed_cids, todo, reported, fetched, attempts, ops,
                   outcomes>>

NextJob == NextBackup \/ MainRequestFails \/ MainRetry \/ ProcessExit

\* the backup job: main, run again once after a read timeout
SpecJob == InitBackup /\ [][NextJob]_vars

\* ------------------------------------------------------------- claims
RemoteCids == {remote[i].cid : i \in 1..Len(remote)}

\* the cycle in progress began with no checkpoint and was never interrupted
ColdUninterrupted == run.cold /\ run.chain /\ run.interrupts = 0 /\ ~run.glitched

\* the remote entries a call with these bounds matches
Beyond(bef, aft) == {m.cid : m \in Range(Matching(bef, aft))}

\* C1: a fetch cycle that began with no checkpoint and ran both walks to
\* their end against an unchanging remote of N entries with distinct CIDs
\* holds exactly the N remote CIDs, and count = N.
C1_ColdStartComplete ==
    (pc = "done" /\ ColdUninterrupted)
        => (Range(pin_set.cids) = RemoteCids /\ pin_set.count = Len(remote))

\* C2: when a walk stops because the reported count is <= limit, the count
\* being the number of matching entries less those just returned, every
\* remote entry beyond the boundary of the walk's last call is in the pinset.
C2_StopCountExhaustsTail ==
    (ev.kind = "stop_count" /\ countMode = "remaining" /\ ~run.glitched)
        => Beyond(ev.before, ev.after) \subseteq Range(pin_set.cids)

\* C3: when a cycle that began from a checkpoint with count > 0 has ended
\* its forward walk, every remote entry created after the checkpoint's
\* last_date is in the pinset (stated for the service whose count is the
\* total of the matching entries, where the stop test cannot cut a walk short).
C3_CatchUpComplete ==
    (ev.walk = "after" /\ ev.kind \in {"stop_count", "stop_empty"}
        /\ ~run.cold /\ ~run.glitched /\ countMode = "total")
        => Beyond(None, Some(run.start_last)) \subseteq Range(pin_set.cids)

SamePinSet(a, b) ==
    /\ Range(a.cids) = Range(b.cids)
    /\ a.count = b.count
    /\ a.first_date = b.first_date
    /\ a.last_date = b.last_date

\* C4: a cycle begun with no checkpoint, interrupted once and run again
\* from the persisted checkpoint ends with the pinset (cids, count,
\* first_date, last_date) of the uninterrupted cycle on the same remote.
C4_ResumeSameResult ==
    (pc = "done" /\ run.chain /\ run.interrupts = 1 /\ ~run.glitched /\ IsSome(ref))
        => SamePinSet(pin_set, Val(ref))

NoDuplicates(cids) == \A i, j \in 1..Len(cids) : cids[i] = cids[j] => i = j

\* C5: a cold cycle during which the service reported one wrong count ends
\* with exactly the remote CIDs, each once (stated for the service whose
\* count is the total of the matching entries).
C5_DriftRecovery ==
    (pc = "done" /\ run.cold /\ run.chain /\ run.interrupts = 0
        /\ run.glitched /\ countMode = "total")
        => (Range(pin_set.cids) = RemoteCids /\ NoDuplicates(pin_set.cids))

\* C6: every remote entry that shares the edge timestamp of a merged page
\* and was left out of that page is in the pinset when the cycle ends, and
\* no CID is held twice (stated for the service whose count is the total of
\* the matching entries).
C6_EdgeTiesCaptured ==
    (pc = "done" /\ ~run.glitched /\ countMode = "total")
        => (run.ties \subseteq Range(pin_set.cids) /\ NoDuplicates(pin_set.cids))

FileEntry == Entry(file, CycleBucket)

FileCids == IF IsSome(FileEntry) THEN Range(Val(FileEntry).cids) ELSE {}

Unsaved == Range(pin_set.cids) \ FileCids

Merged == pc \in {"merged1", "merged2"}

\* C8: after a merge the pinset's cids hold no CID twice, and neither do the
\* cids of any record written by save_pinset_to_json.
C8_CidsUnique ==
    /\ Merged => NoDuplicates(pin_set.cids)
    /\ IsSome(FileEntry) => NoDuplicates(Val(FileEntry).cids)

\* C8 witness: a merge of a page that holds a CID twice and shares a CID with
\* the pinset, which itself held a CID twice, has been saved.
C8_Witness ==
    /\ pc = "merged1" /\ IsSome(FileEntry)
    /\ ~NoDuplicates(PageCids(temp.results))
    /\ ~NoDuplicates(Val(ref).cids)
    /\ Range(PageCids(temp.results)) \cap Range(Val(ref).cids) # {}

\* C9: after a merge, count is the number of distinct CIDs in cids.
C9_CountIsCardinality ==
    Merged => pin_set.count = Cardinality(Range(pin_set.cids))

\* C9 witness: an empty page was merged into a pinset whose count was wrong.
C9_Witness ==
    /\ pc = "merged1"
    /\ Len(temp.results) = 0
    /\ Val(ref).count # Cardinality(Range(Val(ref).cids))

\* C10: merging the same page a second time changes neither the set of
\* cids nor count, first_date or last_date.
C10_MergeIdempotent ==
    pc = "merged2" => SamePinSet(pin_set, Val(ref))

\* C10 witness: the page merged twice was not empty and its first merge
\* added a CID and moved both dates.
C10_Witness ==
    /\ pc = "merged2"
    /\ Len(temp.results) > 0
    /\ \E e \in Range(temp.results) :
          /\ e.created = pin_set.first_date
          /\ pin_set.first_date < pin_set.last_date
    /\ pin_set.count > 1

\* C11: a merge never moves first_date later nor last_date earlier, and the
\* merge of an empty page leaves both as they were.
C11_MonotonicBounds ==
    Merged =>
        /\ pin_set.first_date <= Val(ref).first_date
        /\ pin_set.last_date >= Val(ref).last_date
        /\ Len(temp.results) = 0 =>
               /\ pin_set.first_date = Val(ref).first_date
               /\ pin_set.last_date = Val(ref).last_date

\* C11 witness: the merge of a page with a date before the pinset's
\* first_date and a date after its last_date moved both.
C11_Witness ==
    /\ pc = "merged1"
    /\ pin_set.first_date < Val(ref).first_date
    /\ pin_set.last_date > Val(ref).last_date

\* C12: in a fetch cycle, once the pinset holds an entry (a non-empty page
\* was merged in this cycle or in the one that wrote the checkpoint),
\* first_date <= last_date; the bootstrap's last_date = first_date - 1 s does
\* not outlive the first merged page.
C12_FirstNotAfterLast ==
    (pc \in {"after", "before", "done"} /\ pin_set.count > 0)
        => pin_set.first_date <= pin_set.last_date

\* C12 witness: the first page of a cycle that began with the bootstrap has
\* been merged; the call's "after" was the bootstrap's last_date, one second
\* before first_date.
C12_Witness ==
    /\ run.cold /\ pc = "after" /\ at = "save"
    /\ pin_set.count > 0
    /\ IsSome(ev.after) /\ Val(ev.after) = pin_set.first_date - BootstrapOffset

\* C13: load_pinset_from_json raises nothing, and returns the empty sentinel
\* pinset whenever the file is absent, is not JSON, has no entry for the
\* bucket or has an entry with a field missing or a timestamp that does not
\* parse.
C13_LoadNeverFails ==
    IsSome(loaded) =>
        /\ Val(loaded).raised = "none"
        /\ TryLoadPinSet(file, Val(loaded).bucket_name).raised # "none"
              => Val(loaded).pin_set = EmptyPinSet

\* C14: a fetch cycle begun with an unparseable pin-record file does not end
\* in an error when a cold start on the same remote would not (the remote
\* holds an entry).
C14_CorruptFileNotFatal ==
    (file.state = "unparseable" /\ Len(remote) > 0) => pc # "error"

C16_LostUpdate ==
    \A b \in clobbered : Entry(file, b) # last_saved[b]

\* C16 witness: two saves for different buckets overlapped, both have
\* returned, and one bucket's entry is not the one its save wrote.
C16_Witness ==
    /\ overlapped
    /\ \A r \in Runs : saves[r].at = "returned"
    /\ clobbered # {}
    /\ \E b \in Range(BUCKETS) : IsSome(last_saved[b]) /\ Entry(file, b) # last_saved[b]

\* the CIDs of the mirror file and of the pin ls output, read off element
\* by element
MirrorCids ==
    {c \in BackupCids :
        \E b \in DOMAIN file.data : \E i \in 1..Len(file.data[b].cids) :
            file.data[b].cids[i] = c}

LocalCids == {c \in BackupCids : \E i \in 1..Len(local_cids) : local_cids[i] = c}

Diffed == bpc \in {"pin", "finished"}

\* C17: once the reconciliation has been computed, the CIDs to pin are those
\* of the mirror that the local list lacks, the CIDs reported are those of
\* the local list that the mirror lacks, and the two sets are disjoint; a
\* report does not stop the run.
C17_DiffCorrect ==
    Diffed =>
        /\ missed_cids = {c \in BackupCids : c \in MirrorCids /\ c \notin LocalCids}
        /\ reported = {c \in BackupCids : c \in LocalCids /\ c \notin MirrorCids}
        /\ missed_cids \cap reported = {}
        /\ todo \subseteq missed_cids

\* C17 witness: the run finished with local {1,2,3} and mirror {2,3,4}: 4 was
\* to pin and 1 was reported.
C17_Witness ==
    /\ bpc = "finished"
    /\ LocalCids = {1, 2, 3} /\ MirrorCids = {2, 3, 4}
    /\ missed_cids = {4} /\ reported = {1}

\* C18: no CID has more than one pin_add, a run that made a pin_add does not
\* fail, and when the run has finished each CID to pin had exactly one
\* pin_add and no other CID had any.
C18_PinAddOncePerMissing ==
    /\ \A c \in BackupCids : Len(attempts[c]) <= 1
    /\ bpc = "failed" => \A c \in BackupCids : Len(attempts[c]) = 0
    /\ bpc = "finished" =>
          \A c \in BackupCids : Len(attempts[c]) = IF c \in missed_cids THEN 1 ELSE 0

\* C18 witness: with local {1,2} and mirror {2,3} the run finished although
\* its one pin_add, for 3, timed out.
C18_Witness ==
    /\ bpc = "finished"
    /\ LocalCids = {1, 2} /\ MirrorCids = {2, 3}
    /\ attempts[3] = <<"ReadTimeout">>
    /\ attempts[1] = <<>> /\ attempts[2] = <<>>

\* the requests that add or read
AdditiveOps == {"pin/ls", "GET pins", "pin/add"}

\* C19: no step of a backup run removes a local pin or issues a request
\* other than pin/ls, the listing GET and pin/add, and the CIDs reported as
\* missing in the mirror stay pinned locally.
C19_AdditiveOnly ==
    [][/\ local_pins \subseteq local_pins'
       /\ ops' \subseteq AdditiveOps
       /\ reported' \subseteq local_pins']_vars

\* C19 witness: a run finished that pinned a CID and reported another.
C19_Witness ==
    /\ bpc = "finished"
    /\ reported # {}
    /\ \E c \in missed_cids : attempts[c] = <<"ok">> /\ c \in local_pins

\* C20: when a backup run ends because the token of one bucket is not
\* configured, get_all_cids has been called for every bucket whose token is
\* configured, those listed after it included.
C20_MissingTokenOnlyThatBucket ==
    (bpc = "failed" /\ bucket_i <= Len(BUCKETS) /\ get_token(BUCKETS[bucket_i]) # "none")
        => tokens \subseteq fetched

\* C21: a list call that fails (a timeout, a non-2xx answer) ends the fetch
\* cycle with an error; the step leaves the pinset and the record file as
\* they were, and the record holds every CID merged before the failure.
C21_FailedCallEndsCycle ==
    /\ [](ev.kind \in Raised => pc = "error" /\ Unsaved = {})
    /\ [][(LoopCallFail \/ StartFail) =>
             (pc' = "error" /\ file' = file
                /\ (pc \in {"after", "before"} => pin_set' = pin_set))]_vars

\* C21 witness: the backward walk's call failed after pages of this cycle
\* were merged and saved.
C21_Witness ==
    /\ pc = "error" /\ ev.kind \in Raised /\ ev.walk = "before"
    /\ run.cold /\ ~ev.first
    /\ IsSome(FileEntry) /\ Val(FileEntry).count >= 3
    /\ FileCids = Range(pin_set.cids)

\* the executions of main begun so far
Executions == Len(outcomes) + (IF bpc \in {"finished", "failed"} THEN 0 ELSE 1)

\* C22: main is executed a second time only after a first execution that
\* ended with a read timeout, never a third time; a failure of the second
\* execution, or a failure of the first that is not a read timeout, ends
\* the process in error and starts no execution.
C22_OneRetryOnTimeout ==
    /\ [](/\ Executions <= 2
          /\ Executions = 2 => outcomes[1] = "ReadTimeout"
          /\ exit_status = "ok" => outcomes[Len(outcomes)] = "returned"
          /\ exit_status = "error" =>
                /\ bpc = "failed"
                /\ outcomes[Len(outcomes)] # "returned"
                /\ Len(outcomes) = 2 \/ outcomes[1] # "ReadTimeout")
    /\ [][(bpc = "failed" /\ (Len(outcomes) = 2 \/ outcomes[1] # "ReadTimeout"))
             => (bpc' = "failed" /\ outcomes' = outcomes
                   /\ exit_status' \in {exit_status, "error"})]_vars

\* C22 witness: the second execution timed out as the first had, and the
\* process ended in error.
C22_Witness ==
    /\ outcomes = <<"ReadTimeout", "ReadTimeout">>
    /\ exit_status = "error"

\* the last list call was answered and its page went through the merge
PageMerged == ev.kind \in {"merged", "saved", "stop_count", "stop_empty", "save_error"}

\* a call of the walk in progress took the drift path
DriftedNow == ev.walk = pc /\ ev.drifted

\* C23: while the remote does not change and no response takes the drift
\* path, every merged page after the first of its walk reports a count that
\* is non-negative and smaller than the count of the page before it, and
\* each walk comes to its end.
C23_TerminatesWithoutDrift ==
    /\ []((PageMerged /\ ~ev.drifted) =>
            (ev.count >= 0 /\ (~ev.first => ev.count < ev.old)))
    /\ (pc = "after") ~> (pc # "after" \/ DriftedNow)
    /\ (pc = "before") ~> (pc # "before" \/ DriftedNow)

\* C23 witness: a backward walk ended on its third page without any drift,
\* each page reporting less than the one before.
C23_Witness ==
    /\ pc = "done" /\ ev.walk = "before" /\ ev.kind = "stop_count"
    /\ ~ev.drifted /\ ~ev.first
    /\ ev.count < ev.old
    /\ pin_set.count = LiveEntries

\* the next widening of the boundary leaves the seconds that are followed
Widest ==
    /\ pc \in {"after", "before"} /\ at = "call"
    /\ ~(InRange(WidenedBefore(before)) /\ InRange(WidenedAfter(after)))

\* C24: with the remote unchanged, a walk that takes the drift path comes to
\* an accepted page and to its end.
C24_DriftRetryBounded ==
    /\ (pc = "after") ~> (pc # "after" \/ Widest)
    /\ (pc = "before") ~> (pc # "before" \/ Widest)

\* the last event is a list call of a walk that was answered
WalkCall == ev.walk \in {"after", "before"} /\ (PageMerged \/ ev.kind = "drift")

\* C25 as stated: a page is drift when the count did not fall by a page
\* (whatever the tolerance, a count that did not fall at all is drift) and a
\* page whose count fell by a page or more is accepted.
C25_DriftWhenCountNotDecreased ==
    (WalkCall /\ ~ev.first) =>
        /\ ev.old - ev.count >= limit => ev.kind # "drift"
        /\ ev.old - ev.count <= 0 => ev.kind = "drift"

\* C25: a page is drift exactly when its count is lower than the count it
\* is compared with by more than limit; that count is the count of the last
\* accepted page of the walk, and on the first call of a walk the count of
\* the response itself plus the number of its entries.
C25_DriftWhenCountFellByMoreThanLimit ==
    /\ [](WalkCall => (ev.kind = "drift" <=> ev.old - ev.count > limit))
    /\ [][LoopCall =>
            ev'.old = IF ev'.first THEN ev'.count + Len(ev'.results)
                      ELSE IF ev.kind = "drift" THEN ev.old ELSE ev.count]_vars

\* C25 witness: after a drift, a page that reports the very count of the
\* page before it is accepted.
C25_Witness ==
    /\ ev.kind = "merged" /\ ~ev.first /\ ev.drifted
    /\ ev.old = ev.count

\* C26: after a merged page the walk makes its next call exactly when the
\* page held an entry and reported a count above limit, and that call's
\* boundary is the pinset's last_date (forward) or first_date (backward) as
\* the merge left them; otherwise the walk is over.
C26_NextCallIffMore ==
    /\ [](/\ ev.kind = "saved" =>
                /\ pc = ev.walk /\ at = "call"
                /\ Len(ev.results) >= 1 /\ ev.count > limit
                /\ pc = "after" => (after = Some(pin_set.last_date) /\ before = None)
                /\ pc = "before" => (before = Some(pin_set.first_date) /\ after = None)
          /\ ev.kind \in {"stop_count", "stop_empty"} =>
                /\ pc # ev.walk
                /\ Len(ev.results) = 0 \/ ev.count <= limit)
    /\ [][(LoopCall /\ ev.kind = "saved") =>
            (ev'.walk = ev.walk /\ ev'.before = before /\ ev'.after = after)]_vars

\* C26 witness: the backward walk merged and saved a page that reported
\* more than limit, and stands before its next call at the oldest date held.
C26_Witness ==
    /\ ev.kind = "saved" /\ pc = "before" /\ at = "call"
    /\ ev.count > limit
    /\ before = Some(pin_set.first_date)
    /\ pin_set.first_date = ev.results[Len(ev.results)].created

\* the count of the bucket's record in the file, 0 without a record
FileCount == IF IsSome(FileEntry) THEN Val(FileEntry).count ELSE 0

\* C27: a cycle that loads a pinset of count 0 against a bucket that is not
\* empty begins with one call of limit 1 and after = the sentinel epoch,
\* takes first_date from the newest entry, sets last_date one second
\* earlier and adds no CID; the first page of its forward walk then begins
\* with that newest entry and merges it. A cycle that loads a count above 0
\* makes no bootstrap call.
C27_Bootstrap ==
    /\ [](/\ ev.kind = "boot" =>
                /\ run.cold
                /\ ev.lim = 1 /\ ev.after = Some(SentinelEpoch) /\ ev.before = None
                /\ ev.results = <<remote[1]>>
                /\ pin_set.first_date = remote[1].created
                /\ pin_set.last_date = remote[1].created - 1
                /\ pin_set.cids = <<>> /\ pin_set.count = 0
          /\ (run.cold /\ WalkCall /\ ev.walk = "after" /\ ev.first) =>
                /\ PageMerged
                /\ Len(ev.results) >= 1 /\ ev.results[1] = remote[1]
                /\ remote[1].cid \in Range(pin_set.cids))
    /\ [][(Start /\ pc' = "after") =>
            /\ ev'.kind \in {"boot", "start"}
            /\ ev'.kind = "boot" <=> FileCount = 0]_vars

\* C27 witness: after a bootstrap on a bucket of several entries, the first
\* page of the forward walk brought the newest entry and it was merged.
C27_Witness ==
    /\ run.cold /\ ev.walk = "after" /\ ev.first /\ ev.kind = "merged"
    /\ Len(remote) >= 2
    /\ ev.results[1] = remote[1]
    /\ remote[1].cid \in Range(pin_set.cids)
    /\ pin_set.first_date = remote[1].created

\* the last event is a list call of the cycle: the bootstrap's or a walk's
ListCall == ev.walk \in {"boot", "after", "before"}

\* C28: every list call of a fetch cycle, the bootstrap call and the drift
\* retries included, carries exactly one of before and after: after alone
\* in the bootstrap and the forward walk, before alone in the backward walk;
\* the backward walk's first call follows the end of the forward walk, and
\* no forward call follows a backward call.
C28_OneBoundPerCall ==
    /\ [](/\ ListCall =>
                /\ IsSome(ev.before) # IsSome(ev.after)
                /\ ev.walk \in {"boot", "after"} => (IsSome(ev.after) /\ ev.before = None)
                /\ ev.walk = "before" => (IsSome(ev.before) /\ ev.after = None)
          /\ pc = "after" => (IsSome(after) /\ before = None)
          /\ pc = "before" => (IsSome(before) /\ after = None))
    /\ [][/\ (ev'.walk = "before" /\ ev.walk # "before") =>
                (ev.walk = "after" /\ ev.kind \in {"stop_count", "stop_empty"})
          /\ ev.walk = "before" => ev'.walk # "after"]_vars

\* C28 witness: a drift retry of the backward walk, made with the widened
\* before and no after, after the forward walk had ended.
C28_Witness ==
    /\ ev.walk = "before" /\ ev.kind = "merged" /\ ev.drifted
    /\ IsSome(ev.before) /\ ev.after = None
    /\ Val(ev.before) > pin_set.first_date + DriftWiden - 1

\* C29: an iteration that takes the drift path merges nothing: the pinset,
\* the record file and the count kept for the next comparison are as they
\* were, the walk stays at its call, and only the boundary of the walk's
\* direction moves, before 2 seconds later, after 2 seconds earlier.
C29_DriftPageDiscarded ==
    [][((LoopCall \/ LoopCallGlitch) /\ ev'.kind = "drift") =>
          /\ pin_set' = pin_set
          /\ file' = file
          /\ old_result_count' = old_result_count
          /\ pc' = pc /\ at' = "call"
          /\ pc = "before" => (before' = Some(Val(before) + 2) /\ after' = after)
          /\ pc = "after" => (after' = Some(Val(after) - 2) /\ before' = before)]_vars

\* C29 witness: the backward walk discarded a page that carried entries the
\* pinset does not hold, and stands at its call with before 2 seconds later.
C29_Witness ==
    /\ ev.kind = "drift" /\ ev.walk = "before" /\ pc = "before" /\ at = "call"
    /\ Len(ev.results) >= 1
    /\ Range(PageCids(ev.results)) \cap Range(pin_set.cids) = {}
    /\ before = Some(Val(ev.before) + 2)
    /\ old_result_count = ev.old

\* C30: the first call of a walk, answered with no more than limit entries,
\* never takes the drift path, whatever count the response carries: its page
\* goes through the merge.
C30_FirstPageNeverDrift ==
    (WalkCall /\ ev.first /\ Len(ev.results) <= limit) =>
        (ev.kind # "drift" /\ PageMerged)

\* C30 witness: the first page of a backward walk carried a count that is
\* not the service's, and its entries were merged.
C30_Witness ==
    /\ ev.walk = "before" /\ ev.first /\ ev.kind = "merged" /\ run.glitched
    /\ ev.count # get_list(ev.before, ev.after, limit).count
    /\ Len(ev.results) >= 1
    /\ Range(PageCids(ev.results)) \subseteq Range(pin_set.cids)

\* C31: a cycle that loads a pinset of count 0 against a bucket without
\* entries ends in an error at the bootstrap call, before any call of a
\* walk, and leaves the pin-record file as it was; a cycle ends at the
\* bootstrap in no other case.
C31_EmptyRemoteColdStartFails ==
    /\ [](ev.kind = "boot_error" =>
            /\ pc = "error"
            /\ remote = <<>> /\ ev.results = <<>>
            /\ FileCount = 0
            /\ pin_set = EmptyPinSet)
    /\ [][Start =>
            /\ (FileCount = 0 /\ remote = <<>>) <=> ev'.kind = "boot_error"
            /\ ev'.kind = "boot_error" => (pc' = "error" /\ file' = file)]_vars

\* C31 witness: the cycle ended at the bootstrap call on an empty bucket,
\* with no pin-record file before or after.
C31_Witness ==
    /\ pc = "error" /\ ev.kind = "boot_error" /\ ev.walk = "boot"
    /\ remote = <<>>
    /\ file = AbsentFile

\* C32: over fetch cycles whose record file is not removed or damaged, no
\* step takes a CID out of the bucket's persisted record, whatever is
\* deleted on the remote.
C32_MirrorOnlyGrows ==
    [][FileCids \subseteq FileCids']_vars

\* C32 witness: a cycle that began from the checkpoint ran to its end and
\* saved a newer entry, and the record still holds a CID the remote lost.
C32_Witness ==
    /\ pc = "done" /\ ~run.cold
    /\ FileCids \ RemoteCids # {}
    /\ Len(remote) >= 1 /\ remote[1].cid \in FileCids
    /\ \E c \in FileCids \ RemoteCids : c < remote[1].cid
    /\ ev.walk = "before"

\* run r's save has returned, no save overlapped another, and the pinset
\* loaded since is that of the bucket run r saved
LoadedAfterSaveOf(r) ==
    /\ saves[r].at = "returned"
    /\ ~overlapped
    /\ IsSome(loaded)
    /\ Val(loaded).bucket_name = saves[r].bucket_name

====
